---- MODULE Spec2Model ----
(***************************************************************************)
(* Factory operations chatbot: the Metrics Engine (src/src/metrics.py),    *)
(* the tool dispatch and the tool-calling loop (src/src/main.py) and the   *)
(* chat loop that owns the conversation history.                           *)
(*                                                                         *)
(* Representation.  A Python dict is a TLA+ record (a function on its      *)
(* keys).  Hours are integers in hundredths of an hour (16.0 h = 1600),    *)
(* ratios rounded to 3 decimals are integers in thousandths, percentages   *)
(* rounded to 2 decimals are integers in hundredths of a percent.  A JSON  *)
(* text is a string; json.loads is the table JsonTable, json.dumps wraps   *)
(* the value in a record [json |-> v].                                     *)
(***************************************************************************)
EXTENDS Integers, Sequences, FiniteSets, TLC

(***************************************************************************)
(* Bounds of the model.                                                    *)
(***************************************************************************)
\* chat turns (questions answered or failed) in one session
MaxTurns == 3
\* tool calls the endpoint may request in one session, over all rounds
MaxToolCalls == 2

(***************************************************************************)
(* Values.                                                                 *)
(***************************************************************************)
\* Python's None
None == "None"

\* exceptions that leave a function
JSONDecodeError == [raised |-> "JSONDecodeError"]
TypeError == [raised |-> "TypeError"]
ValueError == [raised |-> "ValueError"]
RuntimeError == [raised |-> "RuntimeError"]
APIError == [raised |-> "APIError"]

IsRaised(v) == "raised" \in DOMAIN v

\* the calendar: the ISO text of day number i is Calendar[i]
Calendar == << "2024-01-01", "2024-01-02", "2024-01-03", "2024-01-04",
               "2024-01-05", "2024-01-06" >>

DayNumbers == 1..Len(Calendar)

\* datetime.fromisoformat(s.split('T')[0]): the day number, or ValueError
SplitT(s) ==
    CASE s = "2024-01-01T00:00:00" -> "2024-01-01"
      [] s = "2024-01-02T23:59:59" -> "2024-01-02"
      [] OTHER -> s

fromisoformat(s) ==
    IF \E i \in DayNumbers : Calendar[i] = s
    THEN CHOOSE i \in DayNumbers : Calendar[i] = s
    ELSE ValueError

\* current.strftime("%Y-%m-%d")
strftime(i) == Calendar[i]

\* the machine names, in the order the store lists them
MACHINES == << "CNC-001", "Assembly-001", "Packaging-001", "Testing-001" >>

MachineNames == { MACHINES[i] : i \in 1..Len(MACHINES) }

\* planned time of one machine-day: 2 shifts * 8 hours, in hundredths
PlannedTime == 1600

\* the fixed performance factor 0.95, in thousandths
Performance == 950

\* a downtime event is major above 2.0 hours, in hundredths
MajorThreshold == 200

(***************************************************************************)
(* Arithmetic helpers.                                                     *)
(***************************************************************************)
\* round(num / den) to the nearest integer, ties to even (Python's round)
RoundHalfEven(num, den) ==
    LET q == num \div den
        r == num % den
    IN  IF 2 * r < den THEN q
        ELSE IF 2 * r > den THEN q + 1
        ELSE IF q % 2 = 0 THEN q ELSE q + 1

\* round(availability * 0.95 * quality, 3) of the float product num / den:
\* the double 0.95 lies just below 19/20, so a product that is an exact
\* decimal tie (availability and quality are then binary fractions, as in
\* 0.5 * 0.95 * 0.5) falls below the tie and rounds down
RoundBelowTie(num, den) ==
    LET q == num \div den
        r == num % den
    IN  IF 2 * r <= den THEN q ELSE q + 1

RECURSIVE SeqSum(_)
SeqSum(s) == IF s = << >> THEN 0 ELSE Head(s) + SeqSum(Tail(s))

RECURSIVE SelectSeqBy(_, _)
\* the subsequence of s whose elements are in the set keep
SelectSeqBy(s, keep) ==
    IF s = << >> THEN << >>
    ELSE IF Head(s) \in keep THEN << Head(s) >> \o SelectSeqBy(Tail(s), keep)
    ELSE SelectSeqBy(Tail(s), keep)

RECURSIVE Flatten(_)
Flatten(ss) == IF ss = << >> THEN << >> ELSE Head(ss) \o Flatten(Tail(ss))

(***************************************************************************)
(* The Production Store: the data file read by load_data (data.py).        *)
(* A file is [kind |-> "missing"], [kind |-> "corrupt"] (present but not   *)
(* readable as JSON) or [kind |-> "json", doc |-> d], where d is the       *)
(* parsed document: EmptyDict for "{}", else [production |-> P] with P a   *)
(* function from date texts to day_data, and day_data a function from      *)
(* machine names to records.                                               *)
(***************************************************************************)
EmptyDict == [k \in {} |-> None]

\* the value None as load_data returns it
NoneData == [none |-> TRUE]

\* Python's truth value of a loaded document: None and {} are false
Falsy(d) == "none" \in DOMAIN d \/ DOMAIN d = {}

\* Python's truth value of an optional string argument
Truthy(v) == v # None /\ v # ""

MissingFile == [kind |-> "missing"]

CorruptFile == [kind |-> "corrupt"]

JsonFile(d) == [kind |-> "json", doc |-> d]

load_data(file) ==
    IF file.kind = "missing" THEN NoneData
    ELSE IF file.kind = "corrupt" THEN RuntimeError
    ELSE file.doc

(***************************************************************************)
(* Metrics Engine (metrics.py).                                            *)
(***************************************************************************)
\* both date texts parse (lines 18-19 raise ValueError otherwise)
DatesParse(start_date, end_date) ==
    /\ \E i \in DayNumbers : Calendar[i] = SplitT(start_date)
    /\ \E i \in DayNumbers : Calendar[i] = SplitT(end_date)

RECURSIVE date_loop_exclusive(_, _)
\* the loop stops before the end date
date_loop_exclusive(current, end) ==
    IF current < end
    THEN << strftime(current) >> \o date_loop_exclusive(current + 1, end)
    ELSE << >>

RECURSIVE date_loop(_, _)
\* the while loop of get_date_range: current <= end
date_loop(current, end) ==
    IF current <= end
    THEN << strftime(current) >> \o date_loop(current + 1, end)
    ELSE << >>

get_date_range(start_date, end_date) ==
    date_loop(fromisoformat(SplitT(start_date)), fromisoformat(SplitT(end_date)))

\* valid_dates = [d for d in dates if d in data['production']]
valid_dates(data, start_date, end_date) ==
    SelectSeqBy(get_date_range(start_date, end_date), DOMAIN data.production)

\* day_data.keys(): the machines of the day in the store's order
day_keys(day_data) == SelectSeqBy(MACHINES, DOMAIN day_data)

\* a day without the named machine is processed for all its machines
machines_processed_all_when_absent(day_data, machine_name) ==
    IF Truthy(machine_name) /\ machine_name \in DOMAIN day_data
    THEN << machine_name >>
    ELSE day_keys(day_data)

\* machines_to_process, less those the loop skips (machine not in day_data)
machines_processed(day_data, machine_name) ==
    SelectSeqBy(IF Truthy(machine_name) THEN << machine_name >> ELSE day_keys(day_data),
                DOMAIN day_data)

\* the (date, machine) pairs the two nested loops visit, in order
processed(data, dates, machine_name) ==
    Flatten([i \in 1..Len(dates) |->
        LET ms == machines_processed(data.production[dates[i]], machine_name)
        IN  [j \in 1..Len(ms) |-> [date |-> dates[i], machine |-> ms[j]]]])

\* m_data of a visited pair
m_data(data, p) == data.production[p.date][p.machine]

\* the sum of one numeric field over the visited pairs
total_of(data, pairs, field) ==
    SeqSum([i \in 1..Len(pairs) |-> m_data(data, pairs[i])[field]])

\* the performance factor is left out of the product
oee_result_without_performance(data, pairs) ==
    LET total_parts == total_of(data, pairs, "parts_produced")
        total_good == total_of(data, pairs, "good_parts")
        total_uptime == total_of(data, pairs, "uptime_hours")
        total_planned_time == Len(pairs) * PlannedTime
    IN  IF total_planned_time = 0 THEN [error |-> "No valid data found"]
        ELSE [oee |-> IF total_parts > 0
                      THEN RoundBelowTie(total_uptime * 1000 * total_good,
                                         total_planned_time * total_parts)
                      ELSE 0,
              availability |-> RoundHalfEven(total_uptime * 1000, total_planned_time),
              performance |-> Performance,
              quality |-> IF total_parts > 0
                          THEN RoundHalfEven(total_good * 1000, total_parts)
                          ELSE 0,
              total_parts |-> total_parts,
              good_parts |-> total_good,
              scrap_parts |-> total_parts - total_good]

oee_result(data, pairs) ==
    LET total_parts == total_of(data, pairs, "parts_produced")
        total_good == total_of(data, pairs, "good_parts")
        total_uptime == total_of(data, pairs, "uptime_hours")
        total_planned_time == Len(pairs) * PlannedTime
    IN  IF total_planned_time = 0 THEN [error |-> "No valid data found"]
        ELSE [oee |-> IF total_parts > 0
                      THEN RoundBelowTie(total_uptime * Performance * total_good,
                                         total_planned_time * total_parts)
                      ELSE 0,
              availability |-> RoundHalfEven(total_uptime * 1000, total_planned_time),
              performance |-> Performance,
              quality |-> IF total_parts > 0
                          THEN RoundHalfEven(total_good * 1000, total_parts)
                          ELSE 0,
              total_parts |-> total_parts,
              good_parts |-> total_good,
              scrap_parts |-> total_parts - total_good]

calculate_oee(file, start_date, end_date, machine_name) ==
    LET data == load_data(file)
    IN  IF IsRaised(data) THEN data
        ELSE IF Falsy(data) THEN [error |-> "No data available"]
        ELSE IF ~DatesParse(start_date, end_date) THEN ValueError
        ELSE LET dates == valid_dates(data, start_date, end_date)
             IN  IF dates = << >> THEN [error |-> "No data for specified date range"]
                 ELSE oee_result(data, processed(data, dates, machine_name))

\* the entry is overwritten with the scrap of the last visited pair
scrap_by_machine_overwritten(data, pairs) ==
    [m \in { pairs[i].machine : i \in 1..Len(pairs) } |->
        LET last == CHOOSE i \in 1..Len(pairs) :
                        /\ pairs[i].machine = m
                        /\ \A j \in 1..Len(pairs) : pairs[j].machine = m => j <= i
        IN  m_data(data, pairs[last]).scrap_parts]

\* scrap_by_machine: per machine, the scrap summed over the visited pairs
scrap_by_machine(data, pairs) ==
    [m \in { pairs[i].machine : i \in 1..Len(pairs) } |->
        SeqSum([i \in 1..Len(pairs) |->
            IF pairs[i].machine = m THEN m_data(data, pairs[i]).scrap_parts ELSE 0])]

\* the rate is left a fraction: the factor 100 is missing
scrap_result_as_fraction(data, pairs, machine_name) ==
    LET total_scrap == total_of(data, pairs, "scrap_parts")
        total_parts == total_of(data, pairs, "parts_produced")
        by_machine == IF Truthy(machine_name)
                      THEN EmptyDict
                      ELSE scrap_by_machine(data, pairs)
        result == [total_scrap |-> total_scrap,
                   total_parts |-> total_parts,
                   scrap_rate |-> IF total_parts > 0
                                  THEN RoundHalfEven(total_scrap * 100, total_parts)
                                  ELSE 0]
    IN  IF DOMAIN by_machine # {}
        THEN result @@ [scrap_by_machine |-> by_machine]
        ELSE result

scrap_result(data, pairs, machine_name) ==
    LET total_scrap == total_of(data, pairs, "scrap_parts")
        total_parts == total_of(data, pairs, "parts_produced")
        by_machine == IF Truthy(machine_name)
                      THEN EmptyDict
                      ELSE scrap_by_machine(data, pairs)
        result == [total_scrap |-> total_scrap,
                   total_parts |-> total_parts,
                   scrap_rate |-> IF total_parts > 0
                                  THEN RoundHalfEven(total_scrap * 10000, total_parts)
                                  ELSE 0]
    IN  IF DOMAIN by_machine # {}
        THEN result @@ [scrap_by_machine |-> by_machine]
        ELSE result

\* the machine filter is not applied to the sums
get_scrap_metrics_of_all_machines(file, start_date, end_date, machine_name) ==
    LET data == load_data(file)
    IN  IF IsRaised(data) THEN data
        ELSE IF Falsy(data) THEN [error |-> "No data available"]
        ELSE IF ~DatesParse(start_date, end_date) THEN ValueError
        ELSE scrap_result(data,
                          processed(data, valid_dates(data, start_date, end_date),
                                    None),
                          machine_name)

get_scrap_metrics(file, start_date, end_date, machine_name) ==
    LET data == load_data(file)
    IN  IF IsRaised(data) THEN data
        ELSE IF Falsy(data) THEN [error |-> "No data available"]
        ELSE IF ~DatesParse(start_date, end_date) THEN ValueError
        ELSE scrap_result(data,
                          processed(data, valid_dates(data, start_date, end_date),
                                    machine_name),
                          machine_name)

\* the severity filter is not applied
issues_of_any_severity(data, p, severity) ==
    LET all == m_data(data, p).quality_issues
    IN  [i \in 1..Len(all) |-> all[i] @@ [date |-> p.date, machine |-> p.machine]]

\* the issues of one visited pair that pass the severity filter, tagged
issues_of(data, p, severity) ==
    LET all == m_data(data, p).quality_issues
        kept == SelectSeq(all, LAMBDA issue :
                    ~(Truthy(severity) /\ issue.severity # severity))
    IN  [i \in 1..Len(kept) |-> kept[i] @@ [date |-> p.date, machine |-> p.machine]]

quality_result(data, pairs, severity) ==
    LET issues == Flatten([i \in 1..Len(pairs) |-> issues_of(data, pairs[i], severity)])
    IN  [issues |-> issues,
         total_issues |-> Len(issues),
         total_parts_affected |->
             SeqSum([i \in 1..Len(issues) |-> issues[i].parts_affected]),
         severity_breakdown |->
             [sev \in { issues[i].severity : i \in 1..Len(issues) } |->
                 Cardinality({ i \in 1..Len(issues) : issues[i].severity = sev })]]

get_quality_issues(file, start_date, end_date, severity, machine_name) ==
    LET data == load_data(file)
    IN  IF IsRaised(data) THEN data
        ELSE IF Falsy(data) THEN [error |-> "No data available"]
        ELSE IF ~DatesParse(start_date, end_date) THEN ValueError
        ELSE quality_result(data,
                            processed(data, valid_dates(data, start_date, end_date),
                                      machine_name),
                            severity)

\* the downtime events of one visited pair, tagged with date and machine
events_of(data, p) ==
    LET evs == m_data(data, p).downtime_events
    IN  [i \in 1..Len(evs) |-> [date |-> p.date,
                                machine |-> p.machine,
                                reason |-> evs[i].reason,
                                description |-> evs[i].description,
                                duration_hours |-> evs[i].duration_hours]]

\* an event of exactly 2.0 hours counts as major
downtime_result_inclusive(data, pairs) ==
    LET events == Flatten([i \in 1..Len(pairs) |-> events_of(data, pairs[i])])
    IN  [total_downtime_hours |-> total_of(data, pairs, "downtime_hours"),
         downtime_by_reason |->
             [r \in { events[i].reason : i \in 1..Len(events) } |->
                 SeqSum([i \in 1..Len(events) |->
                     IF events[i].reason = r THEN events[i].duration_hours ELSE 0])],
         major_events |->
             SelectSeq(events, LAMBDA e : e.duration_hours >= MajorThreshold)]

\* the duration is added to its reason only for a major event
downtime_result_major_only(data, pairs) ==
    LET events == Flatten([i \in 1..Len(pairs) |-> events_of(data, pairs[i])])
        major == SelectSeq(events, LAMBDA e : e.duration_hours > MajorThreshold)
    IN  [total_downtime_hours |-> total_of(data, pairs, "downtime_hours"),
         downtime_by_reason |->
             [r \in { major[i].reason : i \in 1..Len(major) } |->
                 SeqSum([i \in 1..Len(major) |->
                     IF major[i].reason = r THEN major[i].duration_hours ELSE 0])],
         major_events |-> major]

downtime_result(data, pairs) ==
    LET events == Flatten([i \in 1..Len(pairs) |-> events_of(data, pairs[i])])
    IN  [total_downtime_hours |-> total_of(data, pairs, "downtime_hours"),
         downtime_by_reason |->
             [r \in { events[i].reason : i \in 1..Len(events) } |->
                 SeqSum([i \in 1..Len(events) |->
                     IF events[i].reason = r THEN events[i].duration_hours ELSE 0])],
         major_events |->
             SelectSeq(events, LAMBDA e : e.duration_hours > MajorThreshold)]

get_downtime_analysis(file, start_date, end_date, machine_name) ==
    LET data == load_data(file)
    IN  IF IsRaised(data) THEN data
        ELSE IF Falsy(data) THEN [error |-> "No data available"]
        ELSE IF ~DatesParse(start_date, end_date) THEN ValueError
        ELSE downtime_result(data,
                             processed(data, valid_dates(data, start_date, end_date),
                                       machine_name))

(***************************************************************************)
(* Tool Registry (main.py): execute_tool dispatches by name and passes the *)
(* parsed arguments as keyword arguments.                                  *)
(***************************************************************************)
ToolNames == { "calculate_oee", "get_scrap_metrics", "get_quality_issues",
               "get_downtime_analysis" }

\* the keyword parameters of each metrics function
Params(tool_name) ==
    IF tool_name = "get_quality_issues"
    THEN { "start_date", "end_date", "severity", "machine_name" }
    ELSE { "start_date", "end_date", "machine_name" }

\* f(**tool_args) binds: no unexpected keyword, no required one missing
Binds(tool_name, tool_args) ==
    /\ DOMAIN tool_args \subseteq Params(tool_name)
    /\ { "start_date", "end_date" } \subseteq DOMAIN tool_args

\* an optional keyword argument, None when not passed
Arg(tool_args, key) == IF key \in DOMAIN tool_args THEN tool_args[key] ELSE None

\* f"Unknown tool: {tool_name}"
UnknownToolText(tool_name) ==
    CASE tool_name = "nonexistent_tool" -> "Unknown tool: nonexistent_tool"
      [] tool_name = "get_oee" -> "Unknown tool: get_oee"
      [] OTHER -> "Unknown tool: ?"

\* a dispatch table indexed by name: an unregistered name raises KeyError
execute_tool_by_table(file, tool_name, tool_args) ==
    IF tool_name \notin ToolNames THEN [raised |-> "KeyError"]
    ELSE IF ~Binds(tool_name, tool_args) THEN TypeError
    ELSE IF tool_name = "calculate_oee"
    THEN calculate_oee(file, tool_args.start_date, tool_args.end_date,
                       Arg(tool_args, "machine_name"))
    ELSE IF tool_name = "get_scrap_metrics"
    THEN get_scrap_metrics(file, tool_args.start_date, tool_args.end_date,
                           Arg(tool_args, "machine_name"))
    ELSE IF tool_name = "get_quality_issues"
    THEN get_quality_issues(file, tool_args.start_date, tool_args.end_date,
                            Arg(tool_args, "severity"), Arg(tool_args, "machine_name"))
    ELSE get_downtime_analysis(file, tool_args.start_date, tool_args.end_date,
                               Arg(tool_args, "machine_name"))

execute_tool(file, tool_name, tool_args) ==
    IF tool_name \in ToolNames /\ ~Binds(tool_name, tool_args) THEN TypeError
    ELSE IF tool_name = "calculate_oee"
    THEN calculate_oee(file, tool_args.start_date, tool_args.end_date,
                       Arg(tool_args, "machine_name"))
    ELSE IF tool_name = "get_scrap_metrics"
    THEN get_scrap_metrics(file, tool_args.start_date, tool_args.end_date,
                           Arg(tool_args, "machine_name"))
    ELSE IF tool_name = "get_quality_issues"
    THEN get_quality_issues(file, tool_args.start_date, tool_args.end_date,
                            Arg(tool_args, "severity"), Arg(tool_args, "machine_name"))
    ELSE IF tool_name = "get_downtime_analysis"
    THEN get_downtime_analysis(file, tool_args.start_date, tool_args.end_date,
                               Arg(tool_args, "machine_name"))
    ELSE [error |-> UnknownToolText(tool_name)]

\* get_quality_issues tags the issues where they are stored and saves the file
data_file_after_tagging_in_place(file, tool_name) ==
    IF tool_name = "get_quality_issues" /\ file.kind = "json"
                                        /\ "production" \in DOMAIN file.doc
    THEN JsonFile([production |->
            [date \in DOMAIN file.doc.production |->
                [machine \in DOMAIN file.doc.production[date] |->
                    LET stored == file.doc.production[date][machine]
                    IN  [stored EXCEPT !.quality_issues =
                            [i \in 1..Len(stored.quality_issues) |->
                                stored.quality_issues[i]
                                    @@ [date |-> date, machine |-> machine]]]]]])
    ELSE file

\* a metrics tool consumes the store it has read
data_file_after_consuming(file, tool_name) ==
    IF tool_name \in ToolNames /\ file.kind = "json" THEN JsonFile(EmptyDict) ELSE file

\* the data file after a tool ran: every metrics function works on the dict
\* load_data built for that call (lines 46, 118, 179, 234), appends copies to
\* its result (line 204) and never calls save_data
data_file_after(file, tool_name) == file

(***************************************************************************)
(* Store contents used as inputs.                                          *)
(***************************************************************************)
\* a ProductionRecord with scrap and downtime derived as the generator does
Rec(parts, good, uptime, events, issues) ==
    [parts_produced |-> parts,
     good_parts |-> good,
     scrap_parts |-> parts - good,
     uptime_hours |-> uptime,
     downtime_hours |-> PlannedTime - uptime,
     downtime_events |-> events,
     quality_issues |-> issues]

Event(reason, hours) ==
    [reason |-> reason, description |-> reason, duration_hours |-> hours]

Issue(type, severity, parts) ==
    [type |-> type, description |-> type, parts_affected |-> parts, severity |-> severity]

\* two days; the second day lacks Assembly-001 (partial data)
SampleProduction ==
    [d \in { "2024-01-02", "2024-01-03" } |->
        IF d = "2024-01-02"
        THEN [m \in { "CNC-001", "Assembly-001" } |->
                IF m = "CNC-001"
                THEN Rec(100, 90, 1150,
                         << Event("mechanical", 150), Event("mechanical", 300) >>,
                         << >>)
                ELSE Rec(50, 50, 1600, << >>, << Issue("assembly", "High", 5) >>)]
        ELSE [m \in { "CNC-001" } |->
                Rec(80, 76, 1400,
                    << Event("changeover", 200) >>,
                    << Issue("material", "Low", 2), Issue("dimensional", "High", 1) >>)]]

SampleFile == JsonFile([production |-> SampleProduction])

EmptyJsonFile == JsonFile(EmptyDict)

(***************************************************************************)
(* JSON texts of tool arguments.  json.loads is the table below; a text    *)
(* outside the table is not parseable.                                     *)
(***************************************************************************)
ArgsInRange == "{\"start_date\": \"2024-01-02\", \"end_date\": \"2024-01-03\"}"

ArgsOutOfRange == "{\"start_date\": \"2024-01-05\", \"end_date\": \"2024-01-06\"}"

ArgsMachine ==
    "{\"start_date\": \"2024-01-01\", \"end_date\": \"2024-01-03\", \"machine_name\": \"CNC-001\"}"

ArgsSeverity ==
    "{\"start_date\": \"2024-01-02\", \"end_date\": \"2024-01-03\", \"severity\": \"High\"}"

ArgsBadDate == "{\"start_date\": \"yesterday\", \"end_date\": \"2024-01-03\"}"

ArgsNoKeys == "{}"

ArgsNotJson == "{\"start_date\": "

JsonTable ==
    (ArgsInRange :> [start_date |-> "2024-01-02", end_date |-> "2024-01-03"])
    @@ (ArgsOutOfRange :> [start_date |-> "2024-01-05", end_date |-> "2024-01-06"])
    @@ (ArgsMachine :> [start_date |-> "2024-01-01", end_date |-> "2024-01-03",
                        machine_name |-> "CNC-001"])
    @@ (ArgsSeverity :> [start_date |-> "2024-01-02", end_date |-> "2024-01-03",
                         severity |-> "High"])
    @@ (ArgsBadDate :> [start_date |-> "yesterday", end_date |-> "2024-01-03"])
    @@ (ArgsNoKeys :> EmptyDict)

json_loads(text) ==
    IF text \in DOMAIN JsonTable THEN JsonTable[text] ELSE JSONDecodeError

\* json.dumps(result): the JSON text of a value
json_dumps(value) == [json |-> value]

(***************************************************************************)
(* Conversation messages (the dicts main.py builds).                       *)
(***************************************************************************)
SystemPrompt == "You are a factory operations assistant"

SystemMessage == [role |-> "system", content |-> SystemPrompt]

UserMessage(text) == [role |-> "user", content |-> text]

AssistantFinal(text) == [role |-> "assistant", content |-> text]

\* message.model_dump() of a response that carries tool calls
AssistantToolCalls(calls) ==
    [role |-> "assistant", content |-> None, tool_calls |-> calls]

ToolCall(id, name, arguments) ==
    [id |-> id, type |-> "function",
     function |-> [name |-> name, arguments |-> arguments]]

ToolMessage(tool_call, result) ==
    [role |-> "tool",
     tool_call_id |-> tool_call.id,
     name |-> tool_call.function.name,
     content |-> json_dumps(result)]

IsToolCallMessage(m) == m.role = "assistant" /\ "tool_calls" \in DOMAIN m

IsFinalMessage(m) == m.role = "assistant" /\ "tool_calls" \notin DOMAIN m

(***************************************************************************)
(* Inputs of the session.                                                  *)
(***************************************************************************)
\* the question typed in turn n
Question(n) ==
    CASE n = 1 -> "What is the OEE?"
      [] n = 2 -> "And the scrap rate?"
      [] n = 3 -> "Any downtime?"
      [] OTHER -> "Anything else?"

\* final answers the endpoint may give
Replies == { "The OEE is 77.1%", "I could not get the data" }

\* tool names the endpoint may request: registered ones and an unknown one
IssuedNames == { "calculate_oee", "get_scrap_metrics", "nonexistent_tool" }

\* argument texts the endpoint may send
IssuedArgs == { ArgsInRange, ArgsNotJson }

\* states of the data file while a session runs
SessionFiles == { SampleFile, CorruptFile, MissingFile }

(***************************************************************************)
(* The tool-calling loop _get_chat_response and the chat loop (main.py).   *)
(***************************************************************************)
VARIABLES
    data_file,              \* the data file load_data reads
    conversation_history,   \* chat's list, owned by the caller of the loop
    pc,                     \* "input", "call" (AwaitingModel), "tools", "exited";
                            \* outside a session "probe", "metrics", "returned"
    messages,               \* the transcript _get_chat_response works on
    history_start_index,    \* index (from 0) of the new user message
    tool_calls,             \* message.tool_calls of the response being served
    next_call,              \* position in tool_calls of the next call to run
    new_history,            \* the delta the last _get_chat_response returned
    shown,                  \* the last thing chat printed
    history_before,         \* conversation_history when the current turn began
    api_calls,              \* endpoint calls made in the current turn
    executed,               \* ids passed to execute_tool in the current turn
    turns,                  \* turns started
    issued,                 \* tool calls requested so far (the next fresh id)
    probe,                  \* a tool or metrics call made outside a session
    probe_result            \* what that call returned or raised

vars == << data_file, conversation_history, pc, messages, history_start_index,
           tool_calls, next_call, new_history, shown, history_before, api_calls,
           executed, turns, issued, probe, probe_result >>

probe_vars == << probe, probe_result >>

NoProbe == [kind |-> "none"]

Nothing == [kind |-> "none"]

ShownAnswer(text) == [kind |-> "assistant", text |-> text]

ShownError(exc) == [kind |-> "error", error |-> exc.raised]

\* the history is left out of the transcript
build_messages_without_history(history, user_message) ==
    << SystemMessage, UserMessage(user_message) >>

\* lines 278-280: system prompt, then the history, then the new user message
build_messages(history, user_message) ==
    << SystemMessage >> \o history \o << UserMessage(user_message) >>

\* the index of the message before the new user message
start_index_before_user(msgs) == Len(msgs) - 2

\* line 283
start_index(msgs) == Len(msgs) - 1

\* the whole transcript is returned
slice_from_the_top(msgs, index) == msgs

\* messages[history_start_index:]
slice_from(msgs, index) == SubSeq(msgs, index + 1, Len(msgs))

\* only the user message and the final answer are returned
final_delta_without_rounds(msgs, index, content) ==
    << msgs[index + 1], AssistantFinal(content) >>

\* lines 296-298: the delta returned with the final answer
final_delta(msgs, index, content) ==
    Append(slice_from(msgs, index), AssistantFinal(content))

\* the loop walks the list from its end
call_at_reversed(calls, position) == calls[Len(calls) - position + 1]

\* the for loop of line 305 takes the calls in list order
call_at(calls, position) == calls[position]

\* only a result without an error key is appended
append_tool_result_unless_error(msgs, tool_call, result) ==
    IF "error" \in DOMAIN result THEN msgs
    ELSE Append(msgs, ToolMessage(tool_call, result))

\* lines 313-320: the tool message is appended whatever the result holds
append_tool_result(msgs, tool_call, result) ==
    Append(msgs, ToolMessage(tool_call, result))

\* messages is the caller's list itself (system prompt inserted before it)
caller_history_aliased(history, msgs) ==
    IF msgs = << >> THEN history ELSE SubSeq(msgs, 2, Len(msgs))

\* lines 277-280, 302, 313: messages is a list of its own, built by extend;
\* appending to it leaves the list the caller passed as it is
caller_history(history, msgs) == history

\* the loop gives up after its first submission
loop_continues_once(submissions) == submissions < 1

\* line 286: while True, whatever the number of submissions made so far
loop_continues(submissions) == TRUE

\* the for loop is left after its first call
after_tool_call_first_only(calls, position) == "call"

\* lines 305, 286: the for loop takes the next call; after the last one the
\* while loop submits the transcript again
after_tool_call(calls, position) ==
    IF position = Len(calls) THEN "call" ELSE "tools"

\* the history is extended with the delta less its final answer
history_extended_without_answer(history, delta) ==
    history \o SubSeq(delta, 1, Len(delta) - 1)

\* line 547: the history after a turn that returned and was displayed
history_extended(history, delta) == history \o delta

\* a turn that raised commits the messages it had built so far
history_on_error_partial(history, msgs) ==
    history \o SubSeq(msgs, Len(history) + 2, Len(msgs))

\* lines 549-550: the history after a turn that raised
history_on_error(history, msgs) == history

Init ==
    /\ data_file \in SessionFiles
    /\ conversation_history = << >>
    /\ pc = "input"
    /\ messages = << >>
    /\ history_start_index = 0
    /\ tool_calls = << >>
    /\ next_call = 0
    /\ new_history = << >>
    /\ shown = Nothing
    /\ history_before = << >>
    /\ api_calls = 0
    /\ executed = << >>
    /\ turns = 0
    /\ issued = 0
    /\ probe = NoProbe
    /\ probe_result = NoProbe

\* chat reads a question and enters _get_chat_response (lines 524-541, 278-283)
ChatInput ==
    /\ pc = "input"
    /\ turns < MaxTurns
    /\ turns' = turns + 1
    /\ messages' = build_messages(conversation_history, Question(turns + 1))
    /\ history_start_index' = start_index(messages')
    /\ pc' = "call"
    /\ tool_calls' = << >>
    /\ next_call' = 0
    /\ new_history' = << >>
    /\ history_before' = conversation_history
    /\ api_calls' = 0
    /\ executed' = << >>
    /\ conversation_history' = caller_history(conversation_history, messages')
    /\ UNCHANGED << data_file, shown, issued >>
    /\ UNCHANGED probe_vars

\* an empty line: continue (lines 533-534)
ChatSkip ==
    /\ pc = "input"
    /\ UNCHANGED vars

\* exit, quit, q, end of input (lines 525-530)
ChatExit ==
    /\ pc = "input"
    /\ pc' = "exited"
    /\ UNCHANGED << data_file, conversation_history, messages, history_start_index,
                    tool_calls, next_call, new_history, shown, history_before,
                    api_calls, executed, turns, issued >>
    /\ UNCHANGED probe_vars

\* an exception leaves _get_chat_response and is caught by chat (lines 549-550)
TurnRaises(exc) ==
    /\ shown' = ShownError(exc)
    /\ conversation_history' = history_on_error(conversation_history, messages)
    /\ pc' = "input"
    /\ messages' = << >>
    /\ tool_calls' = << >>
    /\ next_call' = 0
    /\ UNCHANGED << data_file, history_start_index, new_history, history_before,
                    turns, issued >>
    /\ UNCHANGED probe_vars

\* client.chat.completions.create raises (line 287)
EndpointFails ==
    /\ pc = "call"
    /\ loop_continues(api_calls)
    /\ api_calls' = api_calls + 1
    /\ UNCHANGED executed
    /\ TurnRaises(APIError)

\* the response carries no tool calls (lines 294-299), then chat prints the
\* answer and extends its history (lines 544-547); printing may raise
EndpointAnswers ==
    /\ pc = "call"
    /\ loop_continues(api_calls)
    /\ \E content \in Replies, printed \in BOOLEAN :
        /\ new_history' = final_delta(messages, history_start_index, content)
        /\ IF printed
           THEN /\ shown' = ShownAnswer(content)
                /\ conversation_history' =
                       history_extended(conversation_history, new_history')
           ELSE /\ shown' = ShownError([raised |-> "MarkupError"])
                /\ conversation_history' =
                       history_on_error(conversation_history, messages)
    /\ api_calls' = api_calls + 1
    /\ pc' = "input"
    /\ messages' = << >>
    /\ UNCHANGED << data_file, history_start_index, tool_calls, next_call,
                    history_before, executed, turns, issued >>
    /\ UNCHANGED probe_vars

\* the response carries k >= 1 tool calls with fresh ids (lines 301-302)
EndpointRequestsTools ==
    /\ pc = "call"
    /\ loop_continues(api_calls)
    /\ \E k \in 1..(MaxToolCalls - issued) :
       \E names \in [1..k -> IssuedNames], args \in [1..k -> IssuedArgs] :
        LET calls == [i \in 1..k |-> ToolCall(issued + i, names[i], args[i])]
        IN  /\ messages' = Append(messages, AssistantToolCalls(calls))
            /\ tool_calls' = calls
            /\ issued' = issued + k
    /\ next_call' = 1
    /\ pc' = "tools"
    /\ api_calls' = api_calls + 1
    /\ conversation_history' = caller_history(conversation_history, messages')
    /\ UNCHANGED << data_file, history_start_index,
                    new_history, shown, history_before, executed, turns >>
    /\ UNCHANGED probe_vars

\* one iteration of the for loop (lines 305-320)
ExecuteToolCall ==
    /\ pc = "tools"
    /\ LET tool_call == call_at(tool_calls, next_call)
           tool_name == tool_call.function.name
           tool_args == json_loads(tool_call.function.arguments)
       IN  IF IsRaised(tool_args)
           THEN /\ TurnRaises(tool_args)
                /\ UNCHANGED << api_calls, executed >>
           ELSE LET result == execute_tool(data_file, tool_name, tool_args)
                IN  /\ executed' = Append(executed, tool_call.id)
                    /\ IF IsRaised(result)
                       THEN /\ TurnRaises(result)
                            /\ UNCHANGED api_calls
                       ELSE /\ messages' = append_tool_result(messages, tool_call, result)
                            /\ next_call' = next_call + 1
                            /\ pc' = after_tool_call(tool_calls, next_call)
                            /\ data_file' = data_file_after(data_file, tool_name)
                            /\ conversation_history' =
                                   caller_history(conversation_history, messages')
                            /\ UNCHANGED << history_start_index, tool_calls,
                                            new_history, shown, history_before,
                                            api_calls, turns, issued >>
                            /\ UNCHANGED probe_vars

\* Ctrl-C during a turn is no Exception: it ends chat (line 549 does not catch it)
Interrupt ==
    /\ pc \in { "call", "tools" }
    /\ pc' = "exited"
    /\ UNCHANGED << data_file, conversation_history, messages, history_start_index,
                    tool_calls, next_call, new_history, shown, history_before,
                    api_calls, executed, turns, issued >>
    /\ UNCHANGED probe_vars

Next ==
    \/ ChatInput
    \/ ChatSkip
    \/ ChatExit
    \/ EndpointFails
    \/ EndpointAnswers
    \/ EndpointRequestsTools
    \/ ExecuteToolCall
    \/ Interrupt

Spec == Init /\ [][Next]_vars

(***************************************************************************)
(* Tool invocations outside a session: every tool name, argument text and  *)
(* state of the data file, invoked as the loop invokes them (json.loads,   *)
(* then execute_tool).  The data file is not written by any invocation.    *)
(***************************************************************************)
ProbeFiles == { SampleFile, MissingFile, CorruptFile, EmptyJsonFile }

ProbeNames == ToolNames \cup { "nonexistent_tool", "get_oee" }

ProbeArgs == DOMAIN JsonTable \cup { ArgsNotJson }

\* lines 306-310: parse the arguments, then dispatch
tool_outcome(file, tool_name, arguments) ==
    LET tool_args == json_loads(arguments)
    IN  IF IsRaised(tool_args) THEN tool_args
        ELSE execute_tool(file, tool_name, tool_args)

InitTools ==
    /\ data_file \in ProbeFiles
    /\ conversation_history = << >>
    /\ pc = "probe"
    /\ messages = << >>
    /\ history_start_index = 0
    /\ tool_calls = << >>
    /\ next_call = 0
    /\ new_history = << >>
    /\ shown = Nothing
    /\ history_before = << >>
    /\ api_calls = 0
    /\ executed = << >>
    /\ turns = 0
    /\ issued = 0
    /\ probe = NoProbe
    /\ probe_result = NoProbe

InvokeTool ==
    /\ pc = "probe"
    /\ \E tool_name \in ProbeNames, arguments \in ProbeArgs :
        /\ probe' = [kind |-> "call", tool_name |-> tool_name, arguments |-> arguments]
        /\ probe_result' = tool_outcome(data_file, tool_name, arguments)
        /\ data_file' = IF IsRaised(json_loads(arguments)) THEN data_file
                        ELSE data_file_after(data_file, tool_name)
    /\ UNCHANGED << conversation_history, pc, messages,
                    history_start_index, tool_calls, next_call, new_history, shown,
                    history_before, api_calls, executed, turns, issued >>

NextTools == InvokeTool

SpecTools == InitTools /\ [][NextTools]_vars

(***************************************************************************)
(* The metrics functions called directly (as tests/ and the dashboard call *)
(* them), over a family of stores.  A store of the family holds up to two  *)
(* days and up to two machines per day (a machine or a day may be missing: *)
(* partial data).  Event durations have two decimals, as the generator     *)
(* writes them.                                                            *)
(***************************************************************************)
\* the largest parts_produced of a machine-day in the counted stores
MaxParts == 2

StoreDates == { "2024-01-02", "2024-01-03" }

StoreMachines == { "CNC-001", "Assembly-001" }

\* start_date and end_date arguments: before, inside and after the store
RangeDates == { "2024-01-01", "2024-01-02", "2024-01-03", "2024-01-04" }

\* machine_name arguments; None is the default
MachineFilters == { None, "CNC-001", "Assembly-001" }

\* severity arguments; None is the default
SeverityFilters == { None, "High", "Medium" }

\* machine-days with downtime events and quality issues: a 1.5 h and a
\* 3.0 h event of one reason, an event of exactly 2.0 h, issues of two
\* severities
ScenarioRecords ==
    { Rec(100, 90, 1150, << Event("mechanical", 150), Event("mechanical", 300) >>, << >>),
      Rec(50, 50, 1600, << >>, << Issue("assembly", "High", 5) >>),
      Rec(80, 76, 1400, << Event("changeover", 200) >>,
          << Issue("material", "Low", 2), Issue("dimensional", "High", 1) >>) }

\* machine-days over every count 0 <= good_parts <= parts_produced <= MaxParts
\* and an uptime of 0, 11.5 or 16 hours
CountRecords ==
    { Rec(c[1], c[2], c[3], << >>, << >>) :
        c \in { x \in (0..MaxParts) \X (0..MaxParts) \X { 0, 1150, PlannedTime } :
                    x[2] <= x[1] } }

\* every day_data over a subset of the machines
DayDatas(machines, records) == UNION { [ms -> records] : ms \in SUBSET machines }

\* every data['production'] over a subset of the dates
Productions(dates, machines, records) ==
    UNION { [ds -> DayDatas(machines, records)] : ds \in SUBSET dates }

\* a machine-day of a file written by hand: load_data checks no field, and
\* here good_parts + scrap_parts is not parts_produced
EditedRecords == { [Rec(2, 1, PlannedTime, << >>, << >>) EXCEPT !.scrap_parts = 2] }

MetricsFiles ==
    { JsonFile([production |-> p]) :
        p \in Productions(StoreDates, StoreMachines, ScenarioRecords)
              \cup Productions({ "2024-01-02" }, StoreMachines, CountRecords)
              \cup Productions({ "2024-01-02" }, StoreMachines, EditedRecords) }
    \cup { MissingFile, CorruptFile, EmptyJsonFile }

\* the variables of a chat session, which a direct call leaves alone
session_vars == << conversation_history, messages, history_start_index, tool_calls,
                   next_call, new_history, shown, history_before, api_calls,
                   executed, turns, issued >>

\* a direct call of a metrics function and its arguments; the caller makes one
\* call (pc "metrics") and holds its result (pc "returned")
MetricsCall(op, start_date, end_date, severity, machine_name) ==
    [kind |-> "metrics", op |-> op, start_date |-> start_date, end_date |-> end_date,
     severity |-> severity, machine_name |-> machine_name]

InitMetrics ==
    /\ data_file \in MetricsFiles
    /\ conversation_history = << >>
    /\ pc = "metrics"
    /\ messages = << >>
    /\ history_start_index = 0
    /\ tool_calls = << >>
    /\ next_call = 0
    /\ new_history = << >>
    /\ shown = Nothing
    /\ history_before = << >>
    /\ api_calls = 0
    /\ executed = << >>
    /\ turns = 0
    /\ issued = 0
    /\ probe = NoProbe
    /\ probe_result = NoProbe

\* the returned list is held as [dates |-> list]
CallGetDateRange ==
    /\ pc = "metrics"
    /\ \E start_date \in RangeDates, end_date \in RangeDates :
        /\ probe' = MetricsCall("get_date_range", start_date, end_date, None, None)
        /\ probe_result' = [dates |-> get_date_range(start_date, end_date)]
    /\ pc' = "returned"
    /\ UNCHANGED << data_file, session_vars >>

CallCalculateOee ==
    /\ pc = "metrics"
    /\ \E start_date \in RangeDates, end_date \in RangeDates,
          machine_name \in MachineFilters :
        /\ probe' = MetricsCall("calculate_oee", start_date, end_date, None, machine_name)
        /\ probe_result' = calculate_oee(data_file, start_date, end_date, machine_name)
    /\ pc' = "returned"
    /\ data_file' = data_file_after(data_file, "calculate_oee")
    /\ UNCHANGED session_vars

CallGetScrapMetrics ==
    /\ pc = "metrics"
    /\ \E start_date \in RangeDates, end_date \in RangeDates,
          machine_name \in MachineFilters :
        /\ probe' = MetricsCall("get_scrap_metrics", start_date, end_date, None,
                                machine_name)
        /\ probe_result' = get_scrap_metrics(data_file, start_date, end_date,
                                             machine_name)
    /\ pc' = "returned"
    /\ data_file' = data_file_after(data_file, "get_scrap_metrics")
    /\ UNCHANGED session_vars

CallGetQualityIssues ==
    /\ pc = "metrics"
    /\ \E start_date \in RangeDates, end_date \in RangeDates,
          severity \in SeverityFilters, machine_name \in MachineFilters :
        /\ probe' = MetricsCall("get_quality_issues", start_date, end_date, severity,
                                machine_name)
        /\ probe_result' = get_quality_issues(data_file, start_date, end_date,
                                              severity, machine_name)
    /\ pc' = "returned"
    /\ data_file' = data_file_after(data_file, "get_quality_issues")
    /\ UNCHANGED session_vars

CallGetDowntimeAnalysis ==
    /\ pc = "metrics"
    /\ \E start_date \in RangeDates, end_date \in RangeDates,
          machine_name \in MachineFilters :
        /\ probe' = MetricsCall("get_downtime_analysis", start_date, end_date, None,
                                machine_name)
        /\ probe_result' = get_downtime_analysis(data_file, start_date, end_date,
                                                 machine_name)
    /\ pc' = "returned"
    /\ data_file' = data_file_after(data_file, "get_downtime_analysis")
    /\ UNCHANGED session_vars

NextMetrics ==
    \/ CallGetDateRange
    \/ CallCalculateOee
    \/ CallGetScrapMetrics
    \/ CallGetQualityIssues
    \/ CallGetDowntimeAnalysis

SpecMetrics == InitMetrics /\ [][NextMetrics]_vars

(***************************************************************************)
(* Properties.                                                             *)
(***************************************************************************)
\* a step in which an exception leaves the turn: the turn ends and
\* _get_chat_response has returned nothing
TurnFailsStep ==
    /\ pc \in { "call", "tools" }
    /\ pc' = "input"
    /\ new_history' = << >>

\* C1: a turn in which _get_chat_response raises (at the first endpoint call
\* or at a later one, after tool rounds) ends with conversation_history equal
\* to what it was before the turn and with the error printed, and the next
\* turn submits the system prompt, that same history and the new question.
C1_FailedTurnLeavesHistory ==
    [][ /\ TurnFailsStep =>
            /\ conversation_history' = history_before
            /\ shown'.kind = "error"
        /\ (pc = "input" /\ pc' = "call" /\ new_history = << >> /\ turns > 0) =>
            /\ messages' = << SystemMessage >> \o history_before
                               \o << UserMessage(Question(turns')) >>
      ]_vars

\* C1 witness: a turn over a non-empty history has failed at its second
\* endpoint call, after a tool round was executed
C1_Witness ==
    /\ pc = "input"
    /\ shown = ShownError(APIError)
    /\ new_history = << >>
    /\ api_calls = 2
    /\ executed # << >>
    /\ Len(conversation_history) >= 2
    /\ conversation_history = history_before

\* the step is an iteration of the tool loop (not Ctrl-C)
ToolLoopStep == pc = "tools" /\ pc' # "exited"

\* the call the tool loop is about to run
CurrentCall == call_at(tool_calls, next_call)

\* the last message of a transcript
Last(msgs) == msgs[Len(msgs)]

\* C2: a tool call whose arguments text is not parseable JSON gets a tool
\* message holding an error payload, and the loop goes on with the next call
\* or the next submission; nothing is raised out of _get_chat_response.
C2_MalformedArgumentsSurfaced ==
    [][ (ToolLoopStep /\ IsRaised(json_loads(CurrentCall.function.arguments))) =>
            /\ pc' \in { "tools", "call" }
            /\ Len(messages') = Len(messages) + 1
            /\ Last(messages').role = "tool"
            /\ Last(messages').tool_call_id = CurrentCall.id
            /\ "error" \in DOMAIN Last(messages').content.json
      ]_vars

\* the tool_call_ids of the tool messages of a transcript, in order
ToolMessageIds(msgs) ==
    LET tools == SelectSeq(msgs, LAMBDA m : m.role = "tool")
    IN  [i \in 1..Len(tools) |-> tools[i].tool_call_id]

\* the n messages after position p are the tool messages of the first n
\* calls of the assistant message at p, in the order of the calls
ToolMessagesFollow(msgs, p, n) ==
    /\ p + n <= Len(msgs)
    /\ \A i \in 1..n :
        /\ msgs[p + i].role = "tool"
        /\ msgs[p + i].tool_call_id = msgs[p].tool_calls[i].id
        /\ msgs[p + i].name = msgs[p].tool_calls[i].function.name

\* C3: the calls c1..ck of one response are executed in the order c1..ck and
\* their tool messages are appended in that order: while the round runs the
\* messages after the assistant message are those of the calls run so far,
\* the i-th carrying ci.id, and at resubmission all k are there; the ids
\* passed to execute_tool in the turn are in the same order.
C3_ToolResultsInCallOrder ==
    /\ pc = "tools" =>
        LET p == Len(messages) - (next_call - 1)
        IN  /\ p >= 1
            /\ IsToolCallMessage(messages[p])
            /\ messages[p].tool_calls = tool_calls
            /\ ToolMessagesFollow(messages, p, next_call - 1)
            /\ next_call <= Len(tool_calls)
    /\ (pc = "call" /\ api_calls > 0) =>
        LET k == Len(tool_calls)
            p == Len(messages) - k
        IN  /\ k >= 1
            /\ p >= 1
            /\ IsToolCallMessage(messages[p])
            /\ messages[p].tool_calls = tool_calls
            /\ ToolMessagesFollow(messages, p, k)
    /\ pc \in { "tools", "call" } =>
        executed = ToolMessageIds(slice_from(messages, history_start_index))

\* C3 witness: a response with two calls has been served and the transcript
\* is about to be resubmitted
C3_Witness ==
    /\ pc = "call"
    /\ api_calls = 1
    /\ Len(tool_calls) = 2
    /\ Len(executed) = 2
    /\ Last(messages).role = "tool"
    /\ Last(messages).tool_call_id = tool_calls[2].id

\* C4: when the first response of a turn carries no tool calls, the turn
\* returns after exactly one endpoint call with a delta of exactly two
\* messages, the user message and an assistant message whose content is the
\* response text, whatever the length of the prior history.
C4_SimpleAnswerDelta ==
    [][ (pc = "call" /\ api_calls = 0 /\ pc' = "input" /\ new_history' # << >>) =>
            /\ api_calls' = 1
            /\ Len(new_history') = 2
            /\ new_history'[1] = UserMessage(Question(turns))
            /\ IsFinalMessage(new_history'[2])
            /\ new_history'[2].content \in Replies
            /\ shown'.kind = "assistant" => new_history'[2].content = shown'.text
      ]_vars

\* C4 witness: a turn over a prior history of at least four messages has
\* returned after one endpoint call
C4_Witness ==
    /\ pc = "input"
    /\ api_calls = 1
    /\ Len(new_history) = 2
    /\ Len(history_before) >= 4
    /\ shown.kind = "assistant"

\* C5: when the first response requests exactly one tool and the second is
\* text, the tool is executed exactly once and the delta is exactly user,
\* assistant with the tool call, tool, final assistant, the tool message
\* carrying the id of the requested call.
C5_SingleToolRoundDelta ==
    (/\ pc = "input"
     /\ new_history # << >>
     /\ api_calls = 2
     /\ Len(tool_calls) = 1) =>
        /\ Len(executed) = 1
        /\ Len(new_history) = 4
        /\ new_history[1] = UserMessage(Question(turns))
        /\ IsToolCallMessage(new_history[2])
        /\ new_history[2].tool_calls = tool_calls
        /\ new_history[3].role = "tool"
        /\ new_history[3].tool_call_id = tool_calls[1].id
        /\ executed = << tool_calls[1].id >>
        /\ IsFinalMessage(new_history[4])

\* C5 witness: such a turn has returned
C5_Witness ==
    /\ pc = "input"
    /\ api_calls = 2
    /\ Len(tool_calls) = 1
    /\ Len(new_history) = 4
    /\ new_history[3].role = "tool"
    /\ "oee" \in DOMAIN new_history[3].content.json

\* names execute_tool does not register
UnknownNames == ProbeNames \ ToolNames

\* C6: for a name other than the four registered ones execute_tool returns
\* {"error": "Unknown tool: <name>"} and does not raise; in a turn that
\* payload is appended as the call's tool message and the loop goes on, to
\* the next call or to the resubmission.
C6_UnknownToolIsPayload ==
    [][ /\ \A f \in ProbeFiles, n \in UnknownNames, a \in DOMAIN JsonTable :
            execute_tool(f, n, JsonTable[a]) = [error |-> UnknownToolText(n)]
        /\ (/\ ToolLoopStep
            /\ CurrentCall.function.name \notin ToolNames
            /\ ~IsRaised(json_loads(CurrentCall.function.arguments))) =>
                /\ messages' = Append(messages,
                       [role |-> "tool",
                        tool_call_id |-> CurrentCall.id,
                        name |-> CurrentCall.function.name,
                        content |-> json_dumps(
                            [error |-> UnknownToolText(CurrentCall.function.name)])])
                /\ pc' = IF next_call = Len(tool_calls) THEN "call" ELSE "tools"
                /\ conversation_history' = conversation_history
                /\ shown' = shown
      ]_vars

\* C6 witness: the tool message of an unknown tool is the last message of a
\* transcript about to be resubmitted
C6_Witness ==
    /\ pc = "call"
    /\ api_calls > 0
    /\ Last(messages).role = "tool"
    /\ Last(messages).name = "nonexistent_tool"
    /\ Last(messages).content = json_dumps([error |-> "Unknown tool: nonexistent_tool"])

RECURSIVE RoundsEnd(_, _)
\* h[j] follows a user message or a complete tool round: the position of
\* the final assistant message that closes the turn, 0 when the turn is not
\* closed or a tool-call message lacks a tool message of one of its calls
RoundsEnd(h, j) ==
    IF j > Len(h) THEN 0
    ELSE IF IsFinalMessage(h[j]) THEN j
    ELSE IF IsToolCallMessage(h[j])
    THEN LET k == Len(h[j].tool_calls)
         IN  IF k >= 1 /\ ToolMessagesFollow(h, j, k)
             THEN RoundsEnd(h, j + k + 1)
             ELSE 0
    ELSE 0

RECURSIVE CompleteTurns(_, _)
\* h from position i on is a concatenation of complete turns
CompleteTurns(h, i) ==
    IF i > Len(h) THEN TRUE
    ELSE /\ h[i].role = "user"
         /\ LET e == RoundsEnd(h, i + 1)
            IN  e # 0 /\ CompleteTurns(h, e + 1)

\* the questions of the user messages of a history, in order
QuestionsIn(h) ==
    LET users == SelectSeq(h, LAMBDA m : m.role = "user")
    IN  [i \in 1..Len(users) |-> users[i].content]

\* C7: conversation_history is at all times a concatenation of complete
\* turns (user message, complete tool rounds, final assistant message), and
\* it changes only by appending the delta a returned _get_chat_response
\* gave, in the step that displays the answer.
C7_HistoryHoldsCompletedTurnsOnly ==
    /\ [](CompleteTurns(conversation_history, 1))
    /\ [][ conversation_history' # conversation_history =>
            /\ pc = "call"
            /\ pc' = "input"
            /\ shown'.kind = "assistant"
            /\ new_history' # << >>
            /\ CompleteTurns(new_history', 1)
            /\ conversation_history' = conversation_history \o new_history'
         ]_vars

\* C7 witness: three turns were started, the second failed after a tool
\* round of the first had been committed, the third is committed
C7_Witness ==
    /\ pc = "input"
    /\ turns = 3
    /\ QuestionsIn(conversation_history) = << Question(1), Question(3) >>
    /\ \E i \in 1..Len(conversation_history) : conversation_history[i].role = "tool"

\* the tool messages of a transcript that carry a given id
ToolMessagesFor(msgs, id) ==
    { q \in 1..Len(msgs) : msgs[q].role = "tool" /\ msgs[q].tool_call_id = id }

\* the (message, call) positions of the tool calls that carry a given id
\* and precede position q
CallsBefore(msgs, id, q) ==
    { pos \in (1..q) \X (1..Len(msgs)) :
        /\ IsToolCallMessage(msgs[pos[1]])
        /\ pos[2] <= Len(msgs[pos[1]].tool_calls)
        /\ msgs[pos[1]].tool_calls[pos[2]].id = id }

\* C8: whenever the transcript is resubmitted after a tool round, every tool
\* call of every assistant tool-call message of this turn has exactly one
\* tool message with its id, after that assistant message and with no
\* assistant message in between, and every tool message of the transcript
\* answers exactly one earlier tool call.
C8_OneToolMessagePerCall ==
    (pc = "call" /\ api_calls > 0) =>
        /\ \A p \in (history_start_index + 1)..Len(messages) :
            IsToolCallMessage(messages[p]) =>
                \A c \in 1..Len(messages[p].tool_calls) :
                    LET found == ToolMessagesFor(messages, messages[p].tool_calls[c].id)
                    IN  /\ Cardinality(found) = 1
                        /\ \A q \in found :
                            /\ q > p
                            /\ \A r \in (p + 1)..q : messages[r].role # "assistant"
        /\ \A q \in 1..Len(messages) :
            messages[q].role = "tool" =>
                Cardinality(CallsBefore(messages, messages[q].tool_call_id, q)) = 1

\* C8 witness: the transcript is resubmitted after the second tool round of
\* the turn, the first round having returned an error payload
C8_Witness ==
    /\ pc = "call"
    /\ api_calls = 2
    /\ Len(executed) = 2
    /\ \E q \in 1..Len(messages) :
        /\ messages[q].role = "tool"
        /\ "error" \in DOMAIN messages[q].content.json

\* C9: the first transcript submitted in a turn is the system prompt, then
\* every message of the prior history in order, then the new user message;
\* it has len(history) + 2 messages.
C9_FirstTranscript ==
    (pc = "call" /\ api_calls = 0) =>
        /\ Len(messages) = Len(conversation_history) + 2
        /\ messages[1] = [role |-> "system", content |-> SystemPrompt]
        /\ \A i \in 1..Len(conversation_history) :
            messages[i + 1] = conversation_history[i]
        /\ Last(messages) = [role |-> "user", content |-> Question(turns)]
        /\ history_start_index + 1 = Len(messages)

\* C9 witness: the first submission of a turn over a history that holds a
\* tool round
C9_Witness ==
    /\ pc = "call"
    /\ api_calls = 0
    /\ Len(conversation_history) >= 4
    /\ \E i \in 1..Len(conversation_history) : conversation_history[i].role = "tool"

\* the store cannot be used: no file, a file that is not JSON, or "{}"
DataUnavailable(file) ==
    \/ file.kind \in { "missing", "corrupt" }
    \/ file.kind = "json" /\ DOMAIN file.doc = {}

\* the arguments name a date range that holds no date of the store
EmptyDateRange(file, tool_args) ==
    /\ ~DataUnavailable(file)
    /\ DatesParse(tool_args.start_date, tool_args.end_date)
    /\ valid_dates(file.doc, tool_args.start_date, tool_args.end_date) = << >>

\* C10: for each of the four tools, an unavailable store and a date range
\* with no date of the store give an error payload: the invocation does not
\* raise and does not return a success result.
C10_UnavailableOrEmptyRangeIsErrorPayload ==
    (/\ probe # NoProbe
     /\ probe.tool_name \in ToolNames
     /\ probe.arguments \in DOMAIN JsonTable
     /\ Binds(probe.tool_name, JsonTable[probe.arguments])
     /\ \/ DataUnavailable(data_file)
        \/ EmptyDateRange(data_file, JsonTable[probe.arguments])) =>
            /\ ~IsRaised(probe_result)
            /\ "error" \in DOMAIN probe_result

(***************************************************************************)
(* Properties of the metrics functions.  The store is read here as a set   *)
(* of machine-days, independently of the loops of metrics.py.              *)
(***************************************************************************)
\* the direct call in the current state is a call of op
Called(op) == probe.kind = "metrics" /\ probe.op = op

\* the day number of a calendar date
DayOf(d) == CHOOSE i \in DayNumbers : Calendar[i] = d

\* load_data gives nothing to work on: no file, or the document "{}"
StoreEmpty(file) ==
    \/ file.kind = "missing"
    \/ file.kind = "json" /\ DOMAIN file.doc = {}

\* the file holds a production log
StoreLoaded(file) == file.kind = "json" /\ "production" \in DOMAIN file.doc

\* the dates of the store between start_date and end_date
DatesInRange(file, start_date, end_date) ==
    { d \in DOMAIN file.doc.production :
        DayOf(start_date) <= DayOf(d) /\ DayOf(d) <= DayOf(end_date) }

\* the machine-days << date, machine >> of the store in the range that pass
\* the machine filter
MachineDays(file, start_date, end_date, machine_name) ==
    { md \in DatesInRange(file, start_date, end_date) \X MachineNames :
        /\ md[2] \in DOMAIN file.doc.production[md[1]]
        /\ machine_name = None \/ md[2] = machine_name }

\* the machine-days of the call in the current state
CalledMachineDays ==
    MachineDays(data_file, probe.start_date, probe.end_date, probe.machine_name)

RecordAt(file, md) == file.doc.production[md[1]][md[2]]

RECURSIVE FieldSum(_, _, _)
\* the sum of a numeric field over a set of machine-days
FieldSum(file, mds, field) ==
    IF mds = {} THEN 0
    ELSE LET md == CHOOSE x \in mds : TRUE
         IN  RecordAt(file, md)[field] + FieldSum(file, mds \ { md }, field)

RECURSIVE DictSum(_)
\* the sum of the values of a dict
DictSum(dict) ==
    IF DOMAIN dict = {} THEN 0
    ELSE LET k == CHOOSE x \in DOMAIN dict : TRUE
         IN  dict[k] + DictSum([x \in DOMAIN dict \ { k } |-> dict[x]])

\* C11: calculate_oee returns an error payload, and does not raise, when
\* the store is empty, when no date of the range is in the store and when no
\* machine-day passes the filter; in every other case it returns a metrics
\* result without an error key.
C11_OeeErrorExactlyInThreeCases ==
    Called("calculate_oee") =>
        /\ ~IsRaised(probe_result)
        /\ "error" \in DOMAIN probe_result <=>
              \/ StoreEmpty(data_file)
              \/ DatesInRange(data_file, probe.start_date, probe.end_date) = {}
              \/ CalledMachineDays = {}
        /\ "error" \notin DOMAIN probe_result =>
              { "oee", "availability", "performance", "quality" }
                  \subseteq DOMAIN probe_result

\* C12: get_date_range(start, end) returns exactly the calendar dates d with
\* start <= d <= end, ascending and without duplicates (end - start + 1
\* dates when start <= end), and the empty sequence when end < start.
C12_DateRangeIsInclusiveAndOrdered ==
    Called("get_date_range") =>
        LET first == DayOf(probe.start_date)
            last == DayOf(probe.end_date)
            dates == probe_result.dates
        IN  /\ { dates[i] : i \in 1..Len(dates) } =
                    { Calendar[n] : n \in { x \in DayNumbers : first <= x /\ x <= last } }
            /\ \A i, j \in 1..Len(dates) : i < j => DayOf(dates[i]) < DayOf(dates[j])
            /\ first <= last => Len(dates) = last - first + 1
            /\ last < first => dates = << >>

\* C12 witness: a range of three dates was asked for and returned
C12_Witness ==
    /\ Called("get_date_range")
    /\ DayOf(probe.end_date) = DayOf(probe.start_date) + 2
    /\ Len(probe_result.dates) = 3

\* the call returned a result that is not an error payload
Succeeded == ~IsRaised(probe_result) /\ "error" \notin DOMAIN probe_result

\* the per-machine breakdown of a scrap result; a result without the key
\* has no entry
BreakdownOf(result) ==
    IF "scrap_by_machine" \in DOMAIN result THEN result.scrap_by_machine ELSE EmptyDict

\* C13: when get_scrap_metrics is called with no machine filter, the values
\* of scrap_by_machine sum exactly to total_scrap, and each machine's value
\* is the sum of its scrap_parts over the dates of the range in the store (a
\* machine without an entry has no record in the range).
C13_ScrapBreakdownSumsToTotal ==
    (Called("get_scrap_metrics") /\ probe.machine_name = None /\ Succeeded) =>
        LET by_machine == BreakdownOf(probe_result)
        IN  /\ DictSum(by_machine) = probe_result.total_scrap
            /\ \A m \in MachineNames :
                LET own == { md \in CalledMachineDays : md[2] = m }
                IN  IF m \in DOMAIN by_machine
                    THEN by_machine[m] = FieldSum(data_file, own, "scrap_parts")
                    ELSE own = {}

\* C13 witness: a breakdown over two machines, one of them with scrap on two
\* dates of the range
C13_Witness ==
    /\ Called("get_scrap_metrics")
    /\ probe.machine_name = None
    /\ Succeeded
    /\ Cardinality(DOMAIN BreakdownOf(probe_result)) = 2
    /\ \E m \in MachineNames :
        /\ Cardinality({ md \in CalledMachineDays : md[2] = m }) = 2
        /\ \A md \in CalledMachineDays :
            md[2] = m => RecordAt(data_file, md).scrap_parts > 0

\* C14: get_scrap_metrics called with no machine filter returns a result
\* that contains scrap_by_machine, for every store and date range, also
\* when the range matches no record; called with a machine filter it
\* returns no breakdown.
C14_BreakdownIffNoMachineFilter ==
    (Called("get_scrap_metrics") /\ Succeeded) =>
        ("scrap_by_machine" \in DOMAIN probe_result <=> probe.machine_name = None)

\* the downtime events of a set of machine-days, each named by its place in
\* the store: << date, machine, position in downtime_events >>
EventSlots(file, mds) ==
    UNION { { << md[1], md[2], i >> :
                i \in 1..Len(RecordAt(file, md).downtime_events) } : md \in mds }

EventAt(file, slot) == RecordAt(file, << slot[1], slot[2] >>).downtime_events[slot[3]]

\* the event of a slot with its date and machine, as major_events carries it
Carried(file, slot) ==
    [date |-> slot[1],
     machine |-> slot[2],
     reason |-> EventAt(file, slot).reason,
     description |-> EventAt(file, slot).description,
     duration_hours |-> EventAt(file, slot).duration_hours]

\* how many times a value occurs in a list
Occurrences(list, value) == Cardinality({ i \in 1..Len(list) : list[i] = value })

\* C15: major_events holds exactly the downtime events of the filtered range
\* that last strictly more than 2.0 hours: an event of exactly 2.0 hours is
\* never in it, every longer event is in it once, and each carries its date,
\* machine, reason, description and duration.
C15_MajorEventsAreStrictlyAboveTwoHours ==
    (Called("get_downtime_analysis") /\ Succeeded) =>
        LET slots == EventSlots(data_file, CalledMachineDays)
            above == { s \in slots : EventAt(data_file, s).duration_hours > 200 }
            major == probe_result.major_events
        IN  /\ \A i \in 1..Len(major) :
                \E s \in above : major[i] = Carried(data_file, s)
            /\ \A s \in above :
                Occurrences(major, Carried(data_file, s)) =
                    Cardinality({ x \in above :
                                    Carried(data_file, x) = Carried(data_file, s) })
            /\ \A s \in slots :
                EventAt(data_file, s).duration_hours = 200 =>
                    Occurrences(major, Carried(data_file, s)) = 0

\* C15 witness: the range holds an event of exactly 2.0 hours, a shorter one
\* and a longer one, and major_events is not empty
C15_Witness ==
    /\ Called("get_downtime_analysis")
    /\ Succeeded
    /\ \E s1, s2, s3 \in EventSlots(data_file, CalledMachineDays) :
        /\ EventAt(data_file, s1).duration_hours = 200
        /\ EventAt(data_file, s2).duration_hours < 200
        /\ EventAt(data_file, s3).duration_hours > 200
    /\ probe_result.major_events # << >>

RECURSIVE DurationSum(_, _)
\* the sum of duration_hours over a set of event slots
DurationSum(file, slots) ==
    IF slots = {} THEN 0
    ELSE LET s == CHOOSE x \in slots : TRUE
         IN  EventAt(file, s).duration_hours + DurationSum(file, slots \ { s })

\* the call covers one machine-day whose events are 1.5 h and 3.0 h of
\* reason mechanical
MechanicalScenario ==
    \E md \in CalledMachineDays :
        /\ CalledMachineDays = { md }
        /\ RecordAt(data_file, md).downtime_events =
                << Event("mechanical", 150), Event("mechanical", 300) >>

AbsDiff(a, b) == IF a >= b THEN a - b ELSE b - a

\* C17 as stated: total_scrap and total_parts are the sums of scrap_parts
\* and parts_produced over the filtered records, and scrap_rate is exactly
\* total_scrap / total_parts x 100 (0 when total_parts is 0).
C17_ScrapRateIsExactRatio ==
    (Called("get_scrap_metrics") /\ Succeeded) =>
        /\ probe_result.total_scrap =
                FieldSum(data_file, CalledMachineDays, "scrap_parts")
        /\ probe_result.total_parts =
                FieldSum(data_file, CalledMachineDays, "parts_produced")
        /\ probe_result.total_parts = 0 => probe_result.scrap_rate = 0
        /\ probe_result.total_parts > 0 =>
                probe_result.scrap_rate * probe_result.total_parts =
                    probe_result.total_scrap * 10000

\* the call covers one machine-day with parts_produced 100 and good_parts 90
HundredNinetyScenario ==
    \E md \in CalledMachineDays :
        /\ CalledMachineDays = { md }
        /\ RecordAt(data_file, md).parts_produced = 100
        /\ RecordAt(data_file, md).good_parts = 90

\* C17 (amended): total_scrap and total_parts are the sums of scrap_parts
\* and parts_produced over the filtered records, and scrap_rate is
\* total_scrap / total_parts x 100 rounded to 2 decimals (within 0.005 of
\* the ratio), 0 when total_parts is 0; 100 parts of which 90 good give
\* total_scrap 10 and scrap_rate 10.0.
C17_ScrapRateIsRatioToTwoDecimals ==
    (Called("get_scrap_metrics") /\ Succeeded) =>
        /\ probe_result.total_scrap =
                FieldSum(data_file, CalledMachineDays, "scrap_parts")
        /\ probe_result.total_parts =
                FieldSum(data_file, CalledMachineDays, "parts_produced")
        /\ probe_result.total_parts = 0 => probe_result.scrap_rate = 0
        /\ probe_result.total_parts > 0 =>
                2 * AbsDiff(probe_result.scrap_rate * probe_result.total_parts,
                            probe_result.total_scrap * 10000)
                    <= probe_result.total_parts
        /\ HundredNinetyScenario =>
                probe_result.total_scrap = 10 /\ probe_result.scrap_rate = 1000

\* C17 witness: the scrap rate of a range whose ratio has more than two
\* decimals (one part in three scrapped)
C17_Witness ==
    /\ Called("get_scrap_metrics")
    /\ Succeeded
    /\ probe_result.total_parts = 3
    /\ probe_result.total_scrap = 1
    /\ probe_result.scrap_rate = 3333

\* value is num / den rounded to the nearest integer (a tie may go either
\* way)
Nearest(value, num, den) ==
    \/ value = num \div den /\ 2 * (num % den) <= den
    \/ value = (num \div den) + 1 /\ 2 * (num % den) >= den

\* C18 as stated: every result of calculate_oee that is not an error has
\* availability, quality and oee within [0, 1], performance 0.95 and
\* oee = availability x performance x quality.
C18_OeeIsProductOfReturnedFactors ==
    (Called("calculate_oee") /\ Succeeded) =>
        /\ probe_result.availability \in 0..1000
        /\ probe_result.quality \in 0..1000
        /\ probe_result.oee \in 0..1000
        /\ probe_result.performance = 950
        /\ probe_result.oee * 1000 * 1000 =
                probe_result.availability * probe_result.performance
                    * probe_result.quality

\* C18 (amended): every result of calculate_oee that is not an error has
\* availability, quality and oee within [0, 1] and performance 0.95; oee is
\* the product availability x performance x quality of the unrounded ratios
\* uptime / planned and good / parts, rounded to 3 decimals, and availability
\* and quality are returned rounded to 3 decimals (quality and oee are 0
\* when no part was produced).
C18_OeeIsRoundedProductOfRatios ==
    (Called("calculate_oee") /\ Succeeded) =>
        LET uptime == FieldSum(data_file, CalledMachineDays, "uptime_hours")
            planned == 1600 * Cardinality(CalledMachineDays)
            good == FieldSum(data_file, CalledMachineDays, "good_parts")
            parts == FieldSum(data_file, CalledMachineDays, "parts_produced")
        IN  /\ probe_result.availability \in 0..1000
            /\ probe_result.quality \in 0..1000
            /\ probe_result.oee \in 0..1000
            /\ probe_result.performance = 950
            /\ Nearest(probe_result.availability, uptime * 1000, planned)
            /\ parts = 0 => probe_result.quality = 0 /\ probe_result.oee = 0
            /\ parts > 0 =>
                /\ Nearest(probe_result.quality, good * 1000, parts)
                /\ Nearest(probe_result.oee, uptime * 950 * good, planned * parts)

\* C18 witness: a result whose oee is not the product of the three factors
\* it is returned with
C18_Witness ==
    /\ Called("calculate_oee")
    /\ Succeeded
    /\ probe_result.oee > 0
    /\ probe_result.oee * 1000 * 1000 #
            probe_result.availability * probe_result.performance * probe_result.quality

\* the quality issues of a set of machine-days, each named by its place in
\* the store: << date, machine, position in quality_issues >>
IssueSlots(file, mds) ==
    UNION { { << md[1], md[2], i >> :
                i \in 1..Len(RecordAt(file, md).quality_issues) } : md \in mds }

IssueAt(file, slot) == RecordAt(file, << slot[1], slot[2] >>).quality_issues[slot[3]]

\* the issue of a slot tagged with its source date and machine
Tagged(file, slot) ==
    [type |-> IssueAt(file, slot).type,
     description |-> IssueAt(file, slot).description,
     parts_affected |-> IssueAt(file, slot).parts_affected,
     severity |-> IssueAt(file, slot).severity,
     date |-> slot[1],
     machine |-> slot[2]]

RECURSIVE PartsAffectedSum(_, _)
\* the sum of parts_affected over a set of issue slots
PartsAffectedSum(file, slots) ==
    IF slots = {} THEN 0
    ELSE LET s == CHOOSE x \in slots : TRUE
         IN  IssueAt(file, s).parts_affected + PartsAffectedSum(file, slots \ { s })

\* the issues of the call in the current state that pass its severity filter
CalledIssues ==
    { s \in IssueSlots(data_file, CalledMachineDays) :
        probe.severity = None \/ IssueAt(data_file, s).severity = probe.severity }

\* C19: get_quality_issues returns every quality issue of the filtered range
\* that passes the severity and machine filters, and no other, each tagged
\* with its date and machine; total_issues is the length of the list and the
\* sum of the severity_breakdown counts; total_parts_affected is the sum of
\* parts_affected over the returned issues.
C19_QualityIssuesAreTheFilteredIssues ==
    (Called("get_quality_issues") /\ Succeeded) =>
        LET issues == probe_result.issues
        IN  /\ \A i \in 1..Len(issues) :
                \E s \in CalledIssues : issues[i] = Tagged(data_file, s)
            /\ \A s \in CalledIssues :
                Occurrences(issues, Tagged(data_file, s)) =
                    Cardinality({ x \in CalledIssues :
                                    Tagged(data_file, x) = Tagged(data_file, s) })
            /\ probe_result.total_issues = Len(issues)
            /\ probe_result.total_issues = Cardinality(CalledIssues)
            /\ probe_result.total_issues = DictSum(probe_result.severity_breakdown)
            /\ probe_result.total_parts_affected =
                    PartsAffectedSum(data_file, CalledIssues)

\* C19 witness: a call with a severity filter over machine-days that hold
\* issues of that severity on two machines and an issue of another severity
C19_Witness ==
    /\ Called("get_quality_issues")
    /\ Succeeded
    /\ probe.severity = "High"
    /\ probe.machine_name = None
    /\ Len(probe_result.issues) >= 2
    /\ \E i, j \in 1..Len(probe_result.issues) :
        probe_result.issues[i].machine # probe_result.issues[j].machine
    /\ \E s \in IssueSlots(data_file, CalledMachineDays) :
        IssueAt(data_file, s).severity = "Low"

\* one of the four metrics operations was called on a store that holds a
\* date of the range
CalledOnStoreDates ==
    /\ probe.kind = "metrics"
    /\ probe.op \in ToolNames
    /\ StoreLoaded(data_file)
    /\ DatesInRange(data_file, probe.start_date, probe.end_date) # {}

\* the result is the aggregate over the machine-days of the range that pass
\* the filter: with no filter every machine present on a date, with a filter
\* the dates on which the named machine is present
AggregatesMachineDays ==
    /\ probe.op = "calculate_oee" =>
        /\ probe_result.total_parts =
                FieldSum(data_file, CalledMachineDays, "parts_produced")
        /\ probe_result.good_parts =
                FieldSum(data_file, CalledMachineDays, "good_parts")
    /\ probe.op = "get_scrap_metrics" =>
        /\ probe_result.total_parts =
                FieldSum(data_file, CalledMachineDays, "parts_produced")
        /\ probe_result.total_scrap =
                FieldSum(data_file, CalledMachineDays, "scrap_parts")
    /\ probe.op = "get_quality_issues" =>
        /\ probe_result.total_issues = Cardinality(CalledIssues)
        /\ probe_result.total_parts_affected =
                PartsAffectedSum(data_file, CalledIssues)
    /\ probe.op = "get_downtime_analysis" =>
        /\ probe_result.total_downtime_hours =
                FieldSum(data_file, CalledMachineDays, "downtime_hours")
        /\ Len(probe_result.major_events) =
                Cardinality({ s \in EventSlots(data_file, CalledMachineDays) :
                                EventAt(data_file, s).duration_hours > 200 })

\* C20 as stated: in all four metrics operations, no machine filter
\* aggregates every machine present on each date of the range, a machine
\* filter skips the dates on which the machine is absent, and the absence is
\* never reported as an error.
C20_AbsenceIsNeverAnError ==
    CalledOnStoreDates => Succeeded /\ AggregatesMachineDays

\* C20 (amended): as stated for get_scrap_metrics, get_quality_issues and
\* get_downtime_analysis, and for calculate_oee when at least one
\* machine-day of the range passes the filter; when none does (the named
\* machine is absent on every date of the range), calculate_oee returns the
\* error payload "No valid data found".
C20_AbsentMachineDaysAreSkipped ==
    CalledOnStoreDates =>
        IF probe.op = "calculate_oee" /\ CalledMachineDays = {}
        THEN probe_result = [error |-> "No valid data found"]
        ELSE Succeeded /\ AggregatesMachineDays

\* C20 witness: calculate_oee for a machine that is present on one date of
\* the range and absent on another date the store holds
C20_Witness ==
    /\ Called("calculate_oee")
    /\ Succeeded
    /\ probe.machine_name = "Assembly-001"
    /\ Cardinality(DatesInRange(data_file, probe.start_date, probe.end_date)) = 2
    /\ Cardinality(CalledMachineDays) = 1
    /\ probe_result.total_parts > 0

(***************************************************************************)
(* Properties of the store and of the loop over whole turns.               *)
(***************************************************************************)
\* C21: no tool invocation changes the Production Store: over any sequence
\* of invocations, with any tool name and argument text, the data file and
\* every record in it (quality_issues and downtime_events included) stay as
\* they were.
C21_MetricsLeaveTheStoreUnchanged ==
    [][ /\ data_file' = data_file
        /\ StoreLoaded(data_file) =>
              \A date \in DOMAIN data_file.doc.production :
              \A machine \in DOMAIN data_file.doc.production[date] :
                  /\ data_file'.doc.production[date][machine].quality_issues
                        = data_file.doc.production[date][machine].quality_issues
                  /\ data_file'.doc.production[date][machine].downtime_events
                        = data_file.doc.production[date][machine].downtime_events
      ]_vars

\* C21 witness: get_quality_issues has returned tagged issues of the sample
\* store and the store is the sample store
C21_Witness ==
    /\ probe # NoProbe
    /\ probe.tool_name = "get_quality_issues"
    /\ ~IsRaised(probe_result)
    /\ "issues" \in DOMAIN probe_result
    /\ Len(probe_result.issues) >= 2
    /\ probe_result.issues[1].date = "2024-01-02"
    /\ data_file = SampleFile

\* the step in which _get_chat_response returns its delta
TurnReturnsStep ==
    /\ pc = "call"
    /\ pc' = "input"
    /\ new_history' # << >>

\* the positions of the assistant tool-call messages of a list
ToolCallPositions(h) == { p \in 1..Len(h) : IsToolCallMessage(h[p]) }

RECURSIVE RoundsLength(_, _)
\* the sum, over the tool rounds at the given positions, of 1 + k
RoundsLength(h, ps) ==
    IF ps = {} THEN 0
    ELSE LET p == CHOOSE x \in ps : TRUE
         IN  1 + Len(h[p].tool_calls) + RoundsLength(h, ps \ { p })

\* C22: the delta a turn returns is the user message, then for each tool
\* round in order its assistant tool-call message followed by the tool
\* messages of its k >= 1 calls, then one final assistant message; its
\* length is 2 plus the sum of 1 + k over the rounds; it holds no system
\* message and starts after the prior history: the transcript is the system
\* prompt, the prior history and the delta less its final message.
C22_DeltaIsUserRoundsFinal ==
    [][ TurnReturnsStep =>
            LET delta == new_history'
                rounds == ToolCallPositions(delta)
            IN  /\ delta[1] = UserMessage(Question(turns))
                /\ RoundsEnd(delta, 2) = Len(delta)
                /\ \A p \in rounds : Len(delta[p].tool_calls) >= 1
                /\ Len(delta) = 2 + RoundsLength(delta, rounds)
                /\ \A i \in 1..Len(delta) : delta[i].role # "system"
                /\ messages = << SystemMessage >> \o history_before
                                  \o SubSeq(delta, 1, Len(delta) - 1)
      ]_vars

\* C22 witness: over a non-empty history a turn of two tool rounds has
\* returned its six messages
C22_Witness ==
    /\ pc = "input"
    /\ Len(history_before) >= 2
    /\ Len(new_history) = 6
    /\ Cardinality(ToolCallPositions(new_history)) = 2
    /\ IsFinalMessage(new_history[6])

\* C23: a turn returns exactly when the endpoint answers without tool calls.
\* A response of the endpoint (a step of AwaitingModel that counts one more
\* submission) either fails the turn, or carries k >= 1 tool calls and the
\* turn does not return, or is a final message and the turn returns; the
\* tool loop never returns and, when its last call is served, the
\* transcript is submitted again; the delta is set nowhere else; and a turn
\* that returns has made (number of tool rounds + 1) submissions.
C23_ReturnsOnFirstResponseWithoutToolCalls ==
    [][ /\ (pc = "call" /\ api_calls' # api_calls) =>
              /\ api_calls' = api_calls + 1
              /\ \/ TurnFailsStep /\ shown' = ShownError(APIError)
                 \/ /\ pc' = "tools"
                    /\ new_history' = << >>
                    /\ Len(messages') = Len(messages) + 1
                    /\ IsToolCallMessage(Last(messages'))
                    /\ Len(Last(messages').tool_calls) >= 1
                 \/ /\ TurnReturnsStep
                    /\ IsFinalMessage(Last(new_history'))
        /\ pc = "tools" =>
              /\ new_history' = << >>
              /\ api_calls' = api_calls
              /\ pc' = "call" =>
                    /\ next_call = Len(tool_calls)
                    /\ Last(messages').role = "tool"
                    /\ Last(messages').tool_call_id = Last(tool_calls).id
        /\ (new_history' # new_history /\ new_history' # << >>) =>
              /\ TurnReturnsStep
              /\ api_calls' # api_calls
        /\ TurnReturnsStep =>
              api_calls' = Cardinality(ToolCallPositions(new_history')) + 1
      ]_vars

\* C23 witness: a turn has returned at its third submission, after two tool
\* rounds
C23_Witness ==
    /\ pc = "input"
    /\ new_history # << >>
    /\ api_calls = 3
    /\ Len(executed) = 2
    /\ shown.kind = "assistant"

\* every message the session holds: the transcript of the running turn
\* (it starts with the committed history), else the committed history
SessionMessages == IF messages # << >> THEN messages ELSE conversation_history

\* the positions of the tool messages of a list
ToolPositions(msgs) == { q \in 1..Len(msgs) : msgs[q].role = "tool" }

\* the name and argument text of the call a tool message answers
OriginOf(msgs, q) ==
    LET pos == CHOOSE x \in CallsBefore(msgs, msgs[q].tool_call_id, q) : TRUE
    IN  msgs[pos[1]].tool_calls[pos[2]].function

RoundsSoFar ==
    { p \in ToolCallPositions(messages) : p > history_start_index + 1 }

\* C25: the loop puts no bound on the tool rounds of a turn.  Whatever the
\* number of rounds already made, a turn that awaits the model accepts
\* another response with tool calls (only the bound of the model on the
\* calls an endpoint issues ends this); as long as every response carries
\* tool calls the turn has not returned; and the transcript has grown by
\* 1 + k messages for each round, nothing being dropped from it.
C25_NoBoundOnToolRounds ==
    /\ (pc = "call" /\ issued < MaxToolCalls) => ENABLED EndpointRequestsTools
    /\ pc \in { "call", "tools" } => new_history = << >>
    /\ pc = "call" =>
          /\ api_calls = Cardinality(RoundsSoFar)
          /\ Len(messages) = Len(history_before) + 2 + RoundsLength(messages, RoundsSoFar)

\* C25 witness: a tool round has been served, the turn has not returned and
\* a further response with tool calls is accepted
C25_Witness ==
    /\ pc = "call"
    /\ api_calls = 1
    /\ Len(executed) = 1
    /\ issued < MaxToolCalls
    /\ new_history = << >>
    /\ ENABLED EndpointRequestsTools

\* C26: _get_chat_response never modifies the list it is passed.  From the
\* start of a turn until it ends, through every tool round, the caller's
\* conversation_history is the list the turn began with, while the
\* transcript grows in a list of its own; a turn that fails leaves it so;
\* and the only change is the caller's extend with the returned delta,
\* which leaves the earlier messages in place.
C26_CallerHistoryChangesOnlyByExtend ==
    /\ [](pc \in { "call", "tools" } =>
            /\ conversation_history = history_before
            /\ Len(messages) >= Len(conversation_history) + 2)
    /\ [][ /\ (Len(messages') > Len(messages)) =>
                 conversation_history' = conversation_history
           /\ conversation_history' # conversation_history =>
                 /\ TurnReturnsStep
                 /\ Len(conversation_history') =
                        Len(history_before) + Len(new_history')
                 /\ SubSeq(conversation_history', 1, Len(history_before))
                        = history_before
                 /\ SubSeq(conversation_history', Len(history_before) + 1,
                           Len(conversation_history')) = new_history'
         ]_vars

\* C26 witness: over a committed history, the second tool round of a turn
\* has been appended to the transcript and the caller's history is as the
\* turn found it
C26_Witness ==
    /\ pc = "call"
    /\ api_calls = 2
    /\ Len(history_before) >= 2
    /\ conversation_history = history_before
    /\ Len(messages) = Len(conversation_history) + 6

\* every record of the store satisfies good_parts + scrap_parts = parts_produced
RecordsAddUp(file) ==
    StoreLoaded(file) =>
        \A date \in DOMAIN file.doc.production :
        \A machine \in DOMAIN file.doc.production[date] :
            LET stored == file.doc.production[date][machine]
            IN  stored.good_parts + stored.scrap_parts = stored.parts_produced

\* C27: on a store whose records satisfy good_parts + scrap_parts =
\* parts_produced, whenever calculate_oee returns a result that is not an
\* error, its total_parts and scrap_parts are the total_parts and
\* total_scrap get_scrap_metrics returns for the same dates and machine.
C27_OeeAndScrapTotalsAgree ==
    (/\ Called("calculate_oee")
     /\ Succeeded
     /\ RecordsAddUp(data_file)) =>
        LET scrap == get_scrap_metrics(data_file, probe.start_date, probe.end_date,
                                       probe.machine_name)
        IN  /\ ~IsRaised(scrap)
            /\ "error" \notin DOMAIN scrap
            /\ probe_result.total_parts = scrap.total_parts
            /\ probe_result.scrap_parts = scrap.total_scrap

\* C27 witness: calculate_oee has returned the 100 parts and 10 scrap parts
\* of CNC-001 on a day on which Assembly-001 produced as well
C27_Witness ==
    /\ Called("calculate_oee")
    /\ Succeeded
    /\ RecordsAddUp(data_file)
    /\ probe.machine_name = "CNC-001"
    /\ probe.start_date = "2024-01-02"
    /\ probe.end_date = "2024-01-02"
    /\ "Assembly-001" \in DOMAIN data_file.doc.production["2024-01-02"]
    /\ probe_result.total_parts = 100
    /\ probe_result.scrap_parts = 10
====
